---- MODULE Spec2Model ----
(***************************************************************************)
(* Orchestrator control loop (plan -> act -> observe -> reflect), the      *)
(* BriefAgent decision policy, the validated tool contract, the trace, the *)
(* state store and the approval store of the agentic songwriter.           *)
(*                                                                         *)
(* One run of Orchestrator.run is cut at its suspension points (the awaits *)
(* on tool.execute and on humanInTheLoop) and at its phases.  Time is      *)
(* counted in ticks; a request's age is Date.now() - timestamp.            *)
(***************************************************************************)
EXTENDS Integers, Sequences, FiniteSets, TLC

(***************************************************************************)
(* Bounds of the model.                                                    *)
(***************************************************************************)
MaxStepsBound == 4          \* BriefAgent without gate: maxSteps in 1..MaxStepsBound
MaxStepsGate == 2           \* BriefAgent with the gate: maxSteps in 1..MaxStepsGate
MaxStepsCustom == 2         \* any other agent: maxSteps in 1..MaxStepsCustom
MaxToolCallsBound == 3      \* maxToolCalls in 1..MaxToolCallsBound
MaxRequests == 2            \* approval requests created through the store API
MaxIds == 2                 \* ... under request ids 1..MaxIds

(***************************************************************************)
(* Program constants.                                                      *)
(***************************************************************************)
TIMEOUT == 1                \* ApprovalStore.TIMEOUT, in ticks of 5 minutes
AcceptableQuality == 17     \* reflect: quality >= 8.5, in half points
EarlierAcceptableQuality == 14  \* the earlier reflect: quality >= 7
MaxQuality == 20            \* the evaluation schema: quality 0..10
AgentMaxIterations == 3     \* BriefAgent.maxIterations
DefaultMaxIterations == 3   \* Orchestrator: config.maxIterations ?? 3

GEN == "generate-song-structure"
EVAL == "evaluate-lyrics"
IMP == "improve-lyrics"
UNKNOWN == "unknown-tool"   \* an allowed id that no tool of the agent carries
FORBIDDEN == "forbidden-tool"   \* a tool of the agent outside allowedTools
GENM == "generate-melody"
EVALM == "evaluate-melody"
IMPM == "improve-melody"

LyricsTools == {GEN, EVAL, IMP}
MelodyTools == {GENM, EVALM, IMPM}

(***************************************************************************)
(* Values.  undefined is Undef for objects and UndefStr for strings.       *)
(***************************************************************************)
Undef == [kind |-> "undefined"]
UndefStr == "undefined"

\* JavaScript truthiness of a string-or-undefined value
Truthy(s) == s # UndefStr /\ s # ""

\* String.prototype.trim on the feedback texts of the model
Trim(s) ==
    CASE s = "   " -> ""
      [] s = " shorter chorus " -> "shorter chorus"
      [] s = " la la " -> "la la"
      [] OTHER -> s

FeedbackInputs == {UndefStr, "   ", " shorter chorus "}
Decisions == {"approve", "reject", "regenerate"}

(***************************************************************************)
(* StateStore: the artifacts map, as the record of what get(key) returns.  *)
(***************************************************************************)
EmptyState ==
    [initialInput |-> Undef, creativeBrief |-> Undef, songStructure |-> Undef,
     evaluation |-> Undef, iterationCount |-> 0, userFeedback |-> UndefStr,
     melodyStructure |-> Undef, emotion |-> UndefStr, mood |-> UndefStr]

StateSet(st, key, value) == [st EXCEPT ![key] = value]

(***************************************************************************)
(* Trace events (createTraceEvent): type, toolId, agentId and what the     *)
(* event carries (input, output, error, metadata).                         *)
(***************************************************************************)
Event(type, toolId, carries, value) ==
    [type |-> type, toolId |-> toolId, carries |-> carries, value |-> value]

(***************************************************************************)
(* BriefAgent.createCreativeBriefDeterministically: the lookup tables      *)
(* (the rows the inputs of the model reach) and the tempo rule.            *)
(***************************************************************************)
emotionToMood(e) ==
    CASE e = "sad" -> "melancholic"
      [] e = "happy" -> "upbeat"
      [] e = "excited" -> "energetic"
      [] OTHER -> "neutral"

emotionToThemes(e) ==
    CASE e = "sad" -> <<"loss", "nostalgia", "longing", "sorrow">>
      [] e = "happy" -> <<"celebration", "joy", "optimism", "gratitude">>
      [] e = "excited" -> <<"anticipation", "adventure", "possibility", "enthusiasm">>
      [] OTHER -> <<"general">>

getTempo(genre, emotion) ==
    IF Truthy(genre) /\ genre \in {"ballad", "slow", "ambient"} THEN "slow"
    ELSE IF Truthy(genre) /\ genre \in {"rock", "metal", "punk", "electronic", "dance"}
         THEN "fast"
    ELSE IF Truthy(emotion) /\ emotion \in {"sad", "calm", "peaceful", "melancholic"}
         THEN "slow"
    ELSE IF Truthy(emotion) /\ emotion \in {"excited", "energetic", "angry", "rage"}
         THEN "fast"
    ELSE "moderate"

createCreativeBriefDeterministically(inputs) ==
    [kind |-> "brief",
     lyrics |-> Trim(inputs.lyrics),
     emotion |-> inputs.emotion,
     genre |-> inputs.genre,
     mood |-> emotionToMood(inputs.emotion),
     themes |-> emotionToThemes(inputs.emotion),
     tempo |-> getTempo(inputs.genre, inputs.emotion),
     style |-> IF Truthy(inputs.genre) THEN inputs.genre ELSE UndefStr,
     language |-> UndefStr,
     userFeedback |-> UndefStr]

\* CreativeBriefSchema.parse: lyrics and emotion min(1); language defaults to 'en'
CreativeBriefValid(b) == b.lyrics # "" /\ b.emotion # ""
CreativeBriefParse(b) ==
    [b EXCEPT !.language = IF b.language = UndefStr THEN "en" ELSE b.language]

(***************************************************************************)
(* AgentStep values and BriefAgent.execute.  The policy reads the state    *)
(* store, may write it (creativeBrief, iterationCount) and returns zero or *)
(* one action, or throws.  tools is the set of ids of agent.tools.         *)
(***************************************************************************)
Action(toolId, input) == [toolId |-> toolId, input |-> input]

Decided(st, actions, reasoning) ==
    [throws |-> FALSE, error |-> UndefStr, state |-> st,
     actions |-> actions, reasoning |-> reasoning]

Thrown(st, error) ==
    [throws |-> TRUE, error |-> error, state |-> st,
     actions |-> <<>>, reasoning |-> UndefStr]

ImproveInput(st) ==
    [kind |-> "improve-input", songStructure |-> st.songStructure,
     evaluation |-> st.evaluation,
     userFeedback |-> IF Truthy(st.userFeedback) THEN st.userFeedback ELSE UndefStr]

\* (a policy whose brief depends on the brief it wrote before)
BriefAgentExecuteRebriefs(st, tools) ==
    IF st.songStructure = Undef /\ st.initialInput # Undef
    THEN LET brief == CreativeBriefParse(
                          createCreativeBriefDeterministically(st.initialInput))
             again == IF st.creativeBrief = Undef THEN brief
                      ELSE [brief EXCEPT !.themes = st.creativeBrief.themes \o @]
         IN  Decided(StateSet(st, "creativeBrief", again), <<Action(GEN, again)>>,
                     "Initial song generation needed from creative brief")
    ELSE Decided(st, <<>>, "Song structure generated")

\* (a policy that asks for the evaluation in the step that generates)
BriefAgentExecuteEager(st, tools) ==
    IF st.songStructure = Undef /\ st.initialInput # Undef
    THEN LET brief == CreativeBriefParse(
                          createCreativeBriefDeterministically(st.initialInput))
         IN  Decided(StateSet(st, "creativeBrief", brief),
                     <<Action(GEN, brief),
                       Action(EVAL, [kind |-> "evaluate-input",
                                     songStructure |-> st.songStructure])>>,
                     "Initial song generation needed from creative brief")
    ELSE Decided(st, <<>>, "Song structure generated")
BriefAgentExecute(st, tools) ==
    IF st.songStructure = Undef /\ st.initialInput # Undef
    THEN LET brief == createCreativeBriefDeterministically(st.initialInput)
             validatedBrief == CreativeBriefParse(brief)
             st1 == StateSet(st, "creativeBrief", validatedBrief)
         IN  IF ~CreativeBriefValid(brief) THEN Thrown(st, "ZodError")
             ELSE IF GEN \notin tools
                  THEN Thrown(st1, "GenerateSongStructure tool not found")
             ELSE Decided(st1, <<Action(GEN, validatedBrief)>>,
                          "Initial song generation needed from creative brief")
    ELSE IF st.songStructure # Undef /\ st.evaluation = Undef
    THEN IF EVAL \notin tools THEN Thrown(st, "EvaluateLyrics tool not found")
         ELSE Decided(st,
                      <<Action(EVAL, [kind |-> "evaluate-input",
                                      songStructure |-> st.songStructure])>>,
                      "Song generated, need to evaluate quality")
    ELSE IF /\ st.evaluation # Undef /\ st.songStructure # Undef
            /\ st.evaluation.needsImprovement
            /\ st.iterationCount < AgentMaxIterations
    THEN LET st1 == StateSet(st, "iterationCount", st.iterationCount + 1)
         IN  IF IMP \notin tools THEN Thrown(st1, "ImproveLyrics tool not found")
             ELSE Decided(st1, <<Action(IMP, ImproveInput(st1))>>,
                          "needs improvement")
    ELSE Decided(st, <<>>,
                 IF st.evaluation # Undef
                 THEN IF st.iterationCount >= AgentMaxIterations
                      THEN "Max iterations reached"
                      ELSE "Quality is acceptable"
                 ELSE "Song structure generated")

(***************************************************************************)
(* MelodyAgent.execute, the policy of the melody workflow (the optional    *)
(* tempo, key and timeSignature are passed through and left out here).     *)
(***************************************************************************)
\* (a policy that asks for the melody without looking at emotion and mood)
MelodyAgentExecuteLenient(st, tools) ==
    IF st.melodyStructure = Undef /\ st.songStructure # Undef
    THEN Decided(st,
                 <<Action(GENM, [kind |-> "melody-input",
                                 songStructure |-> st.songStructure,
                                 emotion |-> st.emotion, mood |-> st.mood])>>,
                 "Initial melody generation needed from song structure")
    ELSE Decided(st, <<>>, "Melody structure generated")

MelodyAgentExecute(st, tools) ==
    IF st.melodyStructure = Undef /\ st.songStructure # Undef
    THEN IF GENM \notin tools THEN Thrown(st, "GenerateMelody tool not found")
         ELSE IF ~Truthy(st.emotion) \/ ~Truthy(st.mood)
         THEN Thrown(st, "Emotion and mood are required for melody generation")
         ELSE Decided(st,
                      <<Action(GENM, [kind |-> "melody-input",
                                      songStructure |-> st.songStructure,
                                      emotion |-> st.emotion, mood |-> st.mood])>>,
                      "Initial melody generation needed from song structure")
    ELSE IF /\ st.melodyStructure # Undef /\ st.evaluation = Undef
            /\ st.songStructure # Undef
    THEN IF EVALM \notin tools THEN Thrown(st, "EvaluateMelody tool not found")
         ELSE Decided(st,
                      <<Action(EVALM, [kind |-> "evaluate-melody-input",
                                       melodyStructure |-> st.melodyStructure,
                                       songStructure |-> st.songStructure])>>,
                      "Melody generated, need to evaluate quality")
    ELSE IF /\ st.evaluation # Undef /\ st.melodyStructure # Undef
            /\ st.songStructure # Undef
            /\ st.evaluation.needsImprovement
            /\ st.iterationCount < AgentMaxIterations
    THEN LET st1 == StateSet(st, "iterationCount", st.iterationCount + 1)
         IN  IF IMPM \notin tools THEN Thrown(st1, "ImproveMelody tool not found")
             ELSE Decided(st1,
                          <<Action(IMPM, [kind |-> "improve-melody-input",
                                          melodyStructure |-> st.melodyStructure,
                                          evaluation |-> st.evaluation,
                                          songStructure |-> st.songStructure])>>,
                          "needs improvement")
    ELSE Decided(st, <<>>,
                 IF st.evaluation # Undef
                 THEN IF st.iterationCount >= AgentMaxIterations
                      THEN "Max iterations reached"
                      ELSE "Quality is acceptable"
                 ELSE "Melody structure generated")

(***************************************************************************)
(* Any other Agent implementation: whatever the state, it returns one of   *)
(* these action lists, or throws.                                          *)
(***************************************************************************)
SampleBrief ==
    CreativeBriefParse(createCreativeBriefDeterministically(
        [kind |-> "input", lyrics |-> " la la ", emotion |-> "happy",
         genre |-> UndefStr]))

AnyAgentPlans ==
    { <<>>, <<Action(GEN, SampleBrief)>>, <<Action(EVAL, Undef)>>,
      <<Action(UNKNOWN, Undef)>>, <<Action(FORBIDDEN, Undef)>>,
      <<Action(GEN, SampleBrief), Action(EVAL, Undef)>> }

AgentDecisions(agentKind, st, tools) ==
    IF agentKind = "BriefAgent" THEN {BriefAgentExecute(st, tools)}
    ELSE IF agentKind = "MelodyAgent" THEN {MelodyAgentExecute(st, tools)}
    ELSE {Decided(st, a, "custom") : a \in AnyAgentPlans}
         \cup {Thrown(st, "agent error")}

(***************************************************************************)
(* Orchestrator.reflect: the decision, and the reflect event it appends to *)
(* the trace (one branch appends none).                                    *)
(***************************************************************************)
Reflection(shouldContinue, reasoning, events) ==
    [shouldContinue |-> shouldContinue, reasoning |-> reasoning, events |-> events]

\* (a reflect that goes by the score where the flag asks for more)
reflectByScore(st, maxIterations) ==
    IF st.songStructure # Undef /\ st.evaluation = Undef
    THEN Reflection(TRUE, "Song generated, need to evaluate quality", <<>>)
    ELSE IF st.evaluation # Undef /\ st.songStructure # Undef
    THEN IF st.evaluation.quality >= AcceptableQuality
         THEN Reflection(FALSE, "Quality is acceptable", <<>>)
         ELSE Reflection(st.iterationCount < maxIterations, "attempting improvement", <<>>)
    ELSE Reflection(st.songStructure = Undef, "Initial generation needed", <<>>)

\* (a reflect that is content with whatever there is)
reflectContent(st, maxIterations) ==
    Reflection(FALSE, "Song structure generated", <<>>)
reflect(st, maxIterations) ==
    IF st.songStructure # Undef /\ st.evaluation = Undef
    THEN Reflection(TRUE, "Song generated, need to evaluate quality",
                    <<Event("reflect", UndefStr, "nextStep", "evaluate")>>)
    ELSE IF /\ st.evaluation # Undef /\ st.songStructure # Undef
            /\ st.evaluation.needsImprovement
            /\ st.iterationCount < maxIterations
    THEN Reflection(TRUE, "attempting improvement",
                    <<Event("reflect", UndefStr, "nextStep", "improve")>>)
    ELSE IF /\ st.evaluation # Undef /\ st.songStructure # Undef
            /\ (~st.evaluation.needsImprovement \/ st.evaluation.quality >= AcceptableQuality)
    THEN Reflection(FALSE, "Quality is acceptable",
                    <<Event("reflect", UndefStr, "reason", "quality_acceptable")>>)
    ELSE IF st.iterationCount >= maxIterations
    THEN Reflection(FALSE, "Max iterations reached",
                    <<Event("reflect", UndefStr, "reason", "max_iterations")>>)
    ELSE IF st.songStructure # Undef
    THEN Reflection(FALSE, "Song structure generated", <<>>)
    ELSE Reflection(TRUE, "Initial generation needed",
                    <<Event("reflect", UndefStr, "reason", "initial_generation")>>)

\* the reflect of the earlier Orchestrator: the same rules, with 7 as the
\* acceptable quality
reflectEarlier(st, maxIterations) ==
    IF st.songStructure # Undef /\ st.evaluation = Undef
    THEN Reflection(TRUE, "Song generated, need to evaluate quality",
                    <<Event("reflect", UndefStr, "nextStep", "evaluate")>>)
    ELSE IF /\ st.evaluation # Undef /\ st.songStructure # Undef
            /\ st.evaluation.needsImprovement
            /\ st.iterationCount < maxIterations
    THEN Reflection(TRUE, "attempting improvement",
                    <<Event("reflect", UndefStr, "nextStep", "improve")>>)
    ELSE IF /\ st.evaluation # Undef /\ st.songStructure # Undef
            /\ (~st.evaluation.needsImprovement \/ st.evaluation.quality >= EarlierAcceptableQuality)
    THEN Reflection(FALSE, "Quality is acceptable",
                    <<Event("reflect", UndefStr, "reason", "quality_acceptable")>>)
    ELSE IF st.iterationCount >= maxIterations
    THEN Reflection(FALSE, "Max iterations reached",
                    <<Event("reflect", UndefStr, "reason", "max_iterations")>>)
    ELSE IF st.songStructure # Undef
    THEN Reflection(FALSE, "Song structure generated", <<>>)
    ELSE Reflection(TRUE, "Initial generation needed",
                    <<Event("reflect", UndefStr, "reason", "initial_generation")>>)

(***************************************************************************)
(* Orchestrator.storeToolOutput and getStateKeyForTool.                    *)
(***************************************************************************)
\* (a store that keeps the evaluation of the draft an improve tool replaces)
storeToolOutputKeepsEvaluation(st, toolId, output) ==
    IF toolId \in {GEN, IMP} THEN StateSet(st, "songStructure", output)
    ELSE IF toolId \in {EVAL, EVALM} THEN StateSet(st, "evaluation", output)
    ELSE IF toolId \in {GENM, IMPM} THEN StateSet(st, "melodyStructure", output)
    ELSE st
\* (a store that keeps something else than the output it is given)
storeToolOutputOther(st, toolId, output) ==
    StateSet(st, "songStructure", [kind |-> "song", v |-> 0])
storeToolOutput(st, toolId, output) ==
    IF toolId = GEN THEN StateSet(st, "songStructure", output)
    ELSE IF toolId = EVAL THEN StateSet(st, "evaluation", output)
    ELSE IF toolId = IMP
    THEN StateSet(StateSet(st, "songStructure", output), "evaluation", Undef)
    ELSE IF toolId = GENM THEN StateSet(st, "melodyStructure", output)
    ELSE IF toolId = EVALM THEN StateSet(st, "evaluation", output)
    ELSE IF toolId = IMPM
    THEN StateSet(StateSet(st, "melodyStructure", output), "evaluation", Undef)
    ELSE st

getStateKeyForTool(toolId) ==
    IF toolId \in {GEN, IMP} THEN "songStructure"
    ELSE IF toolId = EVAL THEN "evaluation"
    ELSE IF toolId \in {GENM, IMPM} THEN "melodyStructure"
    ELSE IF toolId = EVALM THEN "evaluation"
    ELSE toolId

\* what observe() reads: stateStore.get(getStateKeyForTool(toolId))
ObservedOutput(st, toolId) ==
    IF getStateKeyForTool(toolId) \in DOMAIN st
    THEN st[getStateKeyForTool(toolId)] ELSE Undef

(***************************************************************************)
(* The input of the second execution after a regenerate decision.          *)
(***************************************************************************)
RegenerateInput(toolId, input, feedback) ==
    IF ~Truthy(feedback) THEN input
    ELSE IF toolId = IMP THEN [input EXCEPT !.userFeedback = feedback]
    ELSE IF toolId = GEN
    THEN [kind |-> "brief",
          lyrics |-> input.lyrics,
          emotion |-> input.emotion,
          mood |-> input.mood,
          themes |-> input.themes,
          genre |-> IF Truthy(input.genre) THEN input.genre ELSE UndefStr,
          tempo |-> IF Truthy(input.tempo) THEN input.tempo ELSE UndefStr,
          style |-> IF Truthy(input.style) THEN input.style ELSE UndefStr,
          language |-> UndefStr,
          userFeedback |-> feedback]
    ELSE input

\* the gate is consulted for these tools only
NeedsApproval(toolId) == toolId \in {GEN, IMP}

(***************************************************************************)
(* Tool.execute: the input schema decides on the input; the work and the   *)
(* output schema are the tool's own business.  An outcome is an error or   *)
(* a validated output.  n numbers the executions of the run, so that every *)
(* output is a value of its own.                                           *)
(***************************************************************************)
InputValid(toolId, input) ==
    CASE toolId = GEN -> input.kind = "brief" /\ CreativeBriefValid(input)
      [] toolId = EVAL -> input.kind = "evaluate-input" /\ input.songStructure # Undef
      [] toolId = IMP -> /\ input.kind = "improve-input"
                         /\ input.songStructure # Undef /\ input.evaluation # Undef
      [] toolId = GENM -> /\ input.kind = "melody-input"
                          /\ input.songStructure # Undef
                          /\ input.emotion # UndefStr /\ input.mood # UndefStr
      [] toolId = EVALM -> /\ input.kind = "evaluate-melody-input"
                           /\ input.melodyStructure # Undef
                           /\ input.songStructure # Undef
      [] toolId = IMPM -> /\ input.kind = "improve-melody-input"
                          /\ input.melodyStructure # Undef
                          /\ input.evaluation # Undef /\ input.songStructure # Undef
      [] OTHER -> FALSE

\* the message of the Error that execute makes of a ZodError: it carries
\* the name of the tool
ValidationError(toolId) ==
    CASE toolId = GEN -> "Tool GenerateSongStructure validation error"
      [] toolId = EVAL -> "Tool EvaluateLyrics validation error"
      [] toolId = IMP -> "Tool ImproveLyrics validation error"
      [] toolId = GENM -> "Tool GenerateMelody validation error"
      [] toolId = EVALM -> "Tool EvaluateMelody validation error"
      [] toolId = IMPM -> "Tool ImproveMelody validation error"
      [] OTHER -> "Tool Forbidden validation error"

\* internal: executeInternal was invoked
Refused(toolId) ==
    [ok |-> FALSE, error |-> ValidationError(toolId), output |-> Undef,
     internal |-> FALSE]
Failed(error) == [ok |-> FALSE, error |-> error, output |-> Undef, internal |-> TRUE]
Succeeded(output) ==
    [ok |-> TRUE, error |-> UndefStr, output |-> output, internal |-> TRUE]

EvaluationOutputs ==
    { [kind |-> "evaluation", needsImprovement |-> ni, quality |-> q] :
        ni \in BOOLEAN, q \in {12, 18} }

ToolOutputs(toolId, n) ==
    IF toolId \in {EVAL, EVALM} THEN EvaluationOutputs
    ELSE IF toolId \in {GENM, IMPM} THEN {[kind |-> "melody", v |-> n]}
    ELSE {[kind |-> "song", v |-> n]}

\* (a tool that does its work before it looks at the input)
ToolExecuteWorksFirst(toolId, input, n) ==
    IF ~InputValid(toolId, input) THEN {Failed(ValidationError(toolId))}
    ELSE {Failed("tool error")} \cup {Succeeded(o) : o \in ToolOutputs(toolId, n)}

\* a refused input ends execute before the work; on a valid input the work
\* may throw or return what the output schema refuses (one failure stands
\* for both: the caller sees an Error either way)
ToolExecute(toolId, input, n) ==
    IF ~InputValid(toolId, input) THEN {Refused(toolId)}
    ELSE {Failed("tool error")} \cup {Succeeded(o) : o \in ToolOutputs(toolId, n)}

(***************************************************************************)
(* ApprovalStore.  pendingApprovals is the Map in insertion order, each    *)
(* entry naming the promise whose resolvers it holds; promises are the     *)
(* promises createApprovalRequest has returned, with the age of their      *)
(* timestamp, whether their setTimeout is still to fire, and the calls of  *)
(* their resolvers so far.                                                 *)
(***************************************************************************)
EmptyStore ==
    [pendingApprovals |-> <<>>, approvalData |-> <<>>, promises |-> <<>>]

has(pa, id) == \E i \in 1..Len(pa) : pa[i].id = id
get(pa, id) == pa[CHOOSE i \in 1..Len(pa) : pa[i].id = id]
delete(pa, id) == SelectSeq(pa, LAMBDA e : e.id # id)
holds(pa, p) == \E i \in 1..Len(pa) : pa[i].promise = p

ApprovalData(decision, feedback) ==
    [decision |-> decision,
     feedback |-> IF feedback # UndefStr /\ Truthy(Trim(feedback))
                  THEN Trim(feedback) ELSE UndefStr]

\* calling resolve or reject of promise p: only the first call settles it
Settle(S, p, status, value, by) ==
    [S EXCEPT
       !.promises[p] =
           [(IF @.status = "pending"
             THEN [@ EXCEPT !.status = status, !.value = value] ELSE @)
            EXCEPT !.calls = Append(@, [by |-> by,
                                        entryPresent |-> holds(S.pendingApprovals, p)])]]

\* ApprovalStore.cleanup: every entry older than TIMEOUT is deleted, then rejected
RECURSIVE cleanupFrom(_, _, _)
cleanupFrom(i, entries, S) ==
    IF i > Len(entries) THEN S
    ELSE LET e == entries[i]
         IN  IF S.promises[e.promise].age > TIMEOUT
             THEN cleanupFrom(i + 1, entries,
                      Settle([S EXCEPT !.pendingApprovals = delete(@, e.id)],
                             e.promise, "rejected", "Approval request expired",
                             "expired"))
             ELSE cleanupFrom(i + 1, entries, S)

cleanup(S) == cleanupFrom(1, S.pendingApprovals, S)

NewPromise(id) ==
    [id |-> id, status |-> "pending", value |-> UndefStr, age |-> 0, timer |-> TRUE,
     calls |-> <<>>]

\* (a createApprovalRequest that returns the promise without storing its
\* resolvers in the table)
createApprovalRequestUnstored(S, requestId) ==
    [cleanup(S) EXCEPT !.promises = Append(@, NewPromise(requestId))]

\* ApprovalStore.createApprovalRequest: the store afterwards; the promise
\* returned is the last of its promises
createApprovalRequest(S, requestId) ==
    LET S1 == cleanup(S)
        S2 == IF has(S1.pendingApprovals, requestId)
              THEN [S1 EXCEPT !.pendingApprovals = delete(@, requestId)]
              ELSE S1
        p == Len(S2.promises) + 1
    IN  [S2 EXCEPT !.promises = Append(@, NewPromise(requestId)),
                   !.pendingApprovals = Append(@, [id |-> requestId, promise |-> p])]

\* the setTimeout callback of promise p
timeoutCallback(S, p) ==
    LET requestId == S.promises[p].id
        S1 == [S EXCEPT !.promises[p].timer = FALSE, !.promises[p].age = 0]
    IN  IF has(S.pendingApprovals, requestId)
        THEN Settle([S1 EXCEPT !.pendingApprovals = delete(@, requestId)],
                    p, "rejected", "Approval request timed out", "timeout")
        ELSE S1

\* (a resolveApproval that resolves and leaves the entry in the table)
resolveApprovalKeepsEntry(S, requestId, decision, feedback) ==
    IF ~has(S.pendingApprovals, requestId)
    THEN [store |-> S, returns |-> FALSE]
    ELSE [store |-> Settle(S, get(S.pendingApprovals, requestId).promise, "resolved",
                           ApprovalData(decision, feedback), "decision"),
          returns |-> TRUE]

\* ApprovalStore.resolveApproval: the store afterwards and the value returned
resolveApproval(S, requestId, decision, feedback) ==
    IF ~has(S.pendingApprovals, requestId)
    THEN [store |-> S, returns |-> FALSE]
    ELSE LET approval == get(S.pendingApprovals, requestId)
             data == ApprovalData(decision, feedback)
             S1 == [S EXCEPT
                      !.approvalData =
                          [x \in DOMAIN @ \cup {requestId} |->
                              IF x = requestId THEN data ELSE @[x]],
                      !.pendingApprovals = delete(@, requestId)]
         IN  [store |-> Settle(S1, approval.promise, "resolved", data, "decision"),
              returns |-> TRUE]

hasRequest(S, requestId) == has(S.pendingApprovals, requestId)
getPendingIds(S) == [i \in 1..Len(S.pendingApprovals) |-> S.pendingApprovals[i].id]

\* a promise whose timestamp still matters: its entry or its timer is there
Live(S, p) == S.promises[p].timer \/ holds(S.pendingApprovals, p)

Aged(S) ==
    [S EXCEPT !.promises =
        [p \in DOMAIN @ |->
            IF Live(S, p) /\ @[p].age <= TIMEOUT
            THEN [@[p] EXCEPT !.age = @ + 1] ELSE @[p]]]

(***************************************************************************)
(* State of one run and of the process-wide approval store.                *)
(***************************************************************************)
VARIABLES
    config,            \* the Orchestrator's configuration, the agent and the input
    pc,                \* where run() stands
    currentSteps,      \* Orchestrator.currentSteps
    currentToolCalls,  \* Orchestrator.currentToolCalls
    state,             \* stateStore
    trace,             \* trace.events
    agentStep,         \* currentAgentStep: the actions of the current plan
    actionIndex,       \* the action the for loop is at
    observations,      \* the observations of the current step
    output,            \* the output of the tool call in progress
    toolInput,         \* the input of the execution in progress
    approval,          \* the promise humanInTheLoop awaits, the events it sent
    result,            \* what run() returned
    approvalStore,     \* the ApprovalStore singleton
    response,          \* the approval route's last answer
    history,           \* what happened: policy calls, executions, gate calls
    useMockLLM,        \* process.env.USE_MOCK_LLM === 'true'
    usage,             \* the Usage row of one identity and UTC day
    requests           \* the melody route's requests of that identity, by position

orchVars == <<config, pc, currentSteps, currentToolCalls, state, trace, agentStep,
              actionIndex, observations, output, toolInput, approval, result>>
quotaVars == <<useMockLLM, usage, requests>>
vars == <<config, pc, currentSteps, currentToolCalls, state, trace, agentStep,
          actionIndex, observations, output, toolInput, approval, result,
          approvalStore, response, history, useMockLLM, usage, requests>>

NoResult == [returned |-> FALSE, threw |-> FALSE, success |-> FALSE, error |-> UndefStr]
Returned(success, error) ==
    [returned |-> TRUE, threw |-> FALSE, success |-> success, error |-> error]
\* run() rejects: the caller gets an exception, not a result
Threw(error) == [returned |-> FALSE, threw |-> TRUE, success |-> FALSE, error |-> error]

NoApproval == [promise |-> 0, events |-> <<>>]
NoResponse == "none"
EmptyHistory ==
    [policyCalls |-> 0, executions |-> <<>>, gateCalls |-> <<>>, refused |-> <<>>]

ValidInput == [kind |-> "input", lyrics |-> " la la ", emotion |-> "sad", genre |-> "rock"]
BlankInput == [kind |-> "input", lyrics |-> "   ", emotion |-> "sad", genre |-> UndefStr]

\* the state store the caller hands to the Orchestrator: empty, or holding
\* the artifacts of earlier work
Draft0 == [kind |-> "song", v |-> 0]
Evaluation0 == [kind |-> "evaluation", needsImprovement |-> TRUE, quality |-> 12]

InitialStates ==
    { EmptyState,
      [EmptyState EXCEPT !.songStructure = Draft0],
      [EmptyState EXCEPT !.songStructure = Draft0, !.evaluation = Evaluation0],
      [EmptyState EXCEPT !.songStructure = Draft0, !.evaluation = Evaluation0,
                         !.iterationCount = AgentMaxIterations - 1] }

\* the input and the state store a run starts from
Starts ==
    {[input |-> ValidInput, initialState |-> st] : st \in InitialStates}
    \cup {[input |-> BlankInput, initialState |-> EmptyState]}

\* the store a run with maxIterations = 1 leaves when it stops at the
\* iteration limit, handed to the next run
Resumed ==
    [input |-> ValidInput,
     initialState |-> [EmptyState EXCEPT !.songStructure = Draft0,
                                         !.evaluation = Evaluation0,
                                         !.iterationCount = 1]]

\* the store a run leaves that improved the song AgentMaxIterations times and
\* then found it acceptable, handed to the next run
Finished ==
    [input |-> ValidInput,
     initialState |-> [EmptyState EXCEPT
        !.songStructure = Draft0,
        !.evaluation = [kind |-> "evaluation", needsImprovement |-> FALSE,
                        quality |-> 18],
        !.iterationCount = AgentMaxIterations]]

\* a store with a draft, its evaluation and a feedback text waiting for the
\* next improvement
WithFeedback ==
    [input |-> ValidInput,
     initialState |-> [EmptyState EXCEPT !.songStructure = Draft0,
                                         !.evaluation = Evaluation0,
                                         !.userFeedback = "shorter chorus"]]

\* the melody route: run(agent, {}) on a store that holds the song and its
\* emotion and mood, as far as the song's record has them; or the store of
\* earlier melody work
NoInput == [kind |-> "empty"]
Melody0 == [kind |-> "melody", v |-> 0]
SongState ==
    [EmptyState EXCEPT !.songStructure = Draft0, !.emotion = "sad", !.mood = "neutral"]

MelodyStarts ==
    {[input |-> NoInput, initialState |-> st] :
        st \in {SongState,
                [SongState EXCEPT !.emotion = UndefStr],
                [SongState EXCEPT !.emotion = ""],
                [SongState EXCEPT !.mood = UndefStr],
                [SongState EXCEPT !.melodyStructure = Melody0,
                                  !.evaluation = Evaluation0]}}

FreshStarts ==
    {[input |-> ValidInput, initialState |-> EmptyState],
     [input |-> BlankInput, initialState |-> EmptyState]}

\* the phases onProgress is called with; a callback of the model throws
\* whenever it is called with one phase, or whenever it is called
\* (EveryPhase), or never (NoProgress: no callback, or one that never throws)
ProgressPhases ==
    {"planning", "acting", "tool_call", "observing", "reflecting", "complete", "error"}
NoProgress == "none"
EveryPhase == "every"
ProgressError == "progress callback error"

Config(agentKind, allowedTools, maxSteps, maxToolCalls, gate, start) ==
    [agentKind |-> agentKind,
     tools |-> LyricsTools,
     allowedTools |-> allowedTools,
     maxSteps |-> maxSteps,
     maxToolCalls |-> maxToolCalls,
     maxIterations |-> DefaultMaxIterations,
     gate |-> gate,
     onProgress |-> NoProgress,
     input |-> start.input,
     initialState |-> start.initialState]

Configs ==
    {Config("BriefAgent", LyricsTools, s, t, FALSE, start) :
        s \in 1..MaxStepsBound, t \in 1..MaxToolCallsBound, start \in Starts}
    \cup
    \* with the gate: a budget of one tool call, or of more than the steps take
    {Config("BriefAgent", LyricsTools, s, t, TRUE, start) :
        s \in 1..MaxStepsGate, t \in {1, MaxToolCallsBound}, start \in Starts}
    \cup
    {[Config("custom", LyricsTools \cup {UNKNOWN}, s, t, FALSE,
             [input |-> Undef, initialState |-> EmptyState])
         EXCEPT !.tools = LyricsTools \cup {FORBIDDEN}] :
        s \in 1..MaxStepsCustom, t \in 1..MaxToolCallsBound}
    \cup
    \* a budget of one tool call for every step
    {Config("BriefAgent", LyricsTools, MaxStepsBound, MaxStepsBound, FALSE,
            [input |-> ValidInput, initialState |-> EmptyState])}
    \cup
    {Config("BriefAgent", LyricsTools, s, t, FALSE, Finished) :
        s \in 1..MaxStepsGate, t \in 1..MaxToolCallsBound}
    \cup
    {Config("BriefAgent", LyricsTools, s, MaxToolCallsBound, FALSE, WithFeedback) :
        s \in 1..MaxStepsBound}
    \cup
    \* the melody workflow
    {[Config("MelodyAgent", MelodyTools, s, t, gate, start)
         EXCEPT !.tools = MelodyTools] :
        s \in 1..MaxStepsGate, t \in 1..MaxToolCallsBound, gate \in BOOLEAN,
        start \in MelodyStarts}
    \cup
    \* a smaller maxIterations than the agent's own
    {[Config("BriefAgent", LyricsTools, s, t, FALSE, start)
         EXCEPT !.maxIterations = 1] :
        s \in 1..MaxStepsBound, t \in 1..MaxToolCallsBound,
        start \in FreshStarts \cup {Resumed}}
    \cup
    \* a progress callback that throws
    {[Config("BriefAgent", LyricsTools, s, t, FALSE, start)
         EXCEPT !.onProgress = phase] :
        s \in 1..MaxStepsGate, t \in 1..MaxToolCallsBound,
        start \in FreshStarts, phase \in ProgressPhases \cup {EveryPhase}}
    \cup
    {[Config("BriefAgent", LyricsTools, s, t, TRUE, start)
         EXCEPT !.onProgress = "observing"] :
        s \in 1..MaxStepsGate, t \in 1..MaxToolCallsBound, start \in FreshStarts}

(***************************************************************************)
(* The quota of one identity (a user or a guest session) on one UTC day.   *)
(***************************************************************************)
DEFAULT_LIMIT == 5
MaxMelodyRequests == 6      \* melody requests of the identity on the day

\* prisma.usage.findUnique finds no row / finds the row
NoUsage == [exists |-> FALSE, requestsUsed |-> 0, requestsLimit |-> 0]
UsageRecord(used, limit) ==
    [exists |-> TRUE, requestsUsed |-> used, requestsLimit |-> limit]

\* where a request of the melody route stands: each await of POST is a place
\* another request can run
Positions ==
    {"checkQuota", "create", "load", "run", "incrementQuota", "complete",
     "quota exceeded", "song not found", "run failed", "error"}
NoRequests == [p \in Positions |-> 0]

Init ==
    /\ config \in Configs
    /\ pc = "start"
    /\ currentSteps = 0
    /\ currentToolCalls = 0
    /\ state = config.initialState
    /\ trace = <<>>
    /\ agentStep = <<>>
    /\ actionIndex = 0
    /\ observations = <<>>
    /\ output = Undef
    /\ toolInput = Undef
    /\ approval = NoApproval
    /\ result = NoResult
    /\ approvalStore = EmptyStore
    /\ response = NoResponse
    /\ history = EmptyHistory
    /\ useMockLLM = FALSE
    /\ usage = NoUsage
    /\ requests = NoRequests

(***************************************************************************)
(* Orchestrator.run.                                                       *)
(***************************************************************************)
\* (a trace that puts its newest event first)
AddFirst(tr, event) == <<event>> \o tr
Add(tr, event) == Append(tr, event)

Observation(actionId, success) == [actionId |-> actionId, success |-> success]

CurrentAction == agentStep[actionIndex]

\* the for loop moves to the next action, or the step moves on to reflect
NextAction ==
    IF actionIndex < Len(agentStep)
    THEN /\ pc' = "act" /\ actionIndex' = actionIndex + 1
    ELSE /\ pc' = "reflect" /\ actionIndex' = actionIndex

Return(success, error) ==
    /\ pc' = "done"
    /\ result' = Returned(success, error)

\* onProgress throws when it is called with this phase
Throws(phase) == config.onProgress \in {phase, EveryPhase}

\* the outer catch: onProgress, the agent_step error event, the failure result;
\* an exception of the callback in here leaves run() (tr is the trace so far)
OuterCatch(tr, error) ==
    IF Throws("error")
    THEN /\ trace' = tr
         /\ pc' = "done"
         /\ result' = Threw(ProgressError)
    ELSE /\ trace' = Add(tr, Event("agent_step", UndefStr, "error", error))
         /\ Return(FALSE, error)

\* the code after the loop: onProgress, the success result
Complete(tr) ==
    IF Throws("complete")
    THEN OuterCatch(tr, ProgressError)
    ELSE /\ trace' = tr
         /\ Return(TRUE, UndefStr)

\* run(): reset the counters, store the initial input, onProgress
Start ==
    /\ pc = "start"
    /\ currentSteps' = 0
    /\ currentToolCalls' = 0
    /\ state' = StateSet(state, "initialInput", config.input)
    /\ IF Throws("planning")
       THEN OuterCatch(trace, ProgressError)
       ELSE pc' = "loop" /\ UNCHANGED <<trace, result>>
    /\ UNCHANGED <<config, agentStep, actionIndex, observations, output,
                   toolInput, approval, approvalStore, response, history>>
    /\ UNCHANGED quotaVars

\* a while test that lets one step too many through
LoopGuardOffByOne == currentSteps <= config.maxSteps
LoopGuard == currentSteps < config.maxSteps

\* the while test; when it fails, the code after the loop returns
LoopExit ==
    /\ pc = "loop"
    /\ ~LoopGuard
    /\ Complete(trace)
    /\ UNCHANGED <<config, currentSteps, currentToolCalls, state, agentStep,
                   actionIndex, observations, output, toolInput, approval,
                   approvalStore, response, history>>
    /\ UNCHANGED quotaVars

\* PLAN: currentSteps++, plan() asks the agent and appends the plan event
\* (onProgress 'planning' did not throw in Start, so it does not here)
Plan ==
    /\ pc = "loop"
    /\ LoopGuard
    /\ currentSteps' = currentSteps + 1
    /\ history' = [history EXCEPT !.policyCalls = @ + 1]
    /\ \E d \in AgentDecisions(config.agentKind, state, config.tools) :
         /\ state' = d.state
         /\ IF d.throws
            THEN /\ OuterCatch(trace, d.error)
                 /\ UNCHANGED <<agentStep, actionIndex, observations>>
            ELSE IF d.actions = <<>>
            THEN /\ Complete(Add(Add(trace,
                              Event("plan", UndefStr, "plan", d.reasoning)),
                              Event("agent_step", UndefStr, "reason", d.reasoning)))
                 /\ agentStep' = d.actions
                 /\ UNCHANGED <<actionIndex, observations>>
            ELSE IF Throws("acting")
            THEN /\ OuterCatch(Add(trace, Event("plan", UndefStr, "plan", d.reasoning)),
                               ProgressError)
                 /\ agentStep' = d.actions
                 /\ UNCHANGED <<actionIndex, observations>>
            ELSE /\ trace' = Add(trace, Event("plan", UndefStr, "plan", d.reasoning))
                 /\ agentStep' = d.actions
                 /\ actionIndex' = 1
                 /\ observations' = <<>>
                 /\ pc' = "act"
                 /\ UNCHANGED result
    /\ UNCHANGED <<config, currentToolCalls, output, toolInput, approval,
                   approvalStore, response>>
    /\ UNCHANGED quotaVars

\* a guard that trips one call too late
ToolCallsGuardLate == currentToolCalls > config.maxToolCalls
ToolCallsGuard == currentToolCalls >= config.maxToolCalls

\* ACT, guardrail: the tool-call budget is used up
ActMaxToolCalls ==
    /\ pc = "act"
    /\ ToolCallsGuard
    /\ IF Throws("error")
       THEN OuterCatch(trace, ProgressError)
       ELSE /\ Return(FALSE, "Max tool calls exceeded")
            /\ UNCHANGED trace
    /\ UNCHANGED <<config, currentSteps, currentToolCalls, state, agentStep,
                   actionIndex, observations, output, toolInput, approval,
                   approvalStore, response, history>>
    /\ UNCHANGED quotaVars

\* (an Orchestrator without the allow-list)
AllowedAlways(toolId) == TRUE
Allowed(toolId) == toolId \in config.allowedTools

\* ACT: the tool is not in allowedTools
ActNotAllowed ==
    /\ pc = "act"
    /\ ~ToolCallsGuard
    /\ ~Allowed(CurrentAction.toolId)
    /\ observations' = Append(observations, Observation(CurrentAction.toolId, FALSE))
    /\ history' = [history EXCEPT !.refused = Append(@, CurrentAction.toolId)]
    /\ NextAction
    /\ UNCHANGED <<config, currentSteps, currentToolCalls, state, trace, agentStep,
                   output, toolInput, approval, result, approvalStore, response>>
    /\ UNCHANGED quotaVars

\* (an inner catch that ends the run as the outer catch does)
CaughtAborts(toolId, error) ==
    /\ trace' = Add(trace, Event("agent_step", UndefStr, "error", error))
    /\ observations' = observations
    /\ pc' = "done"
    /\ actionIndex' = actionIndex

\* what the inner catch does with an error
Caught(toolId, error) ==
    /\ trace' = Add(trace, Event("tool_call", toolId, "error", error))
    /\ observations' = Append(observations, Observation(toolId, FALSE))
    /\ NextAction

\* ACT: agent.tools has no tool of that id; the throw lands in the inner catch
ActToolNotFound ==
    /\ pc = "act"
    /\ ~ToolCallsGuard
    /\ Allowed(CurrentAction.toolId)
    /\ CurrentAction.toolId \notin config.tools
    /\ Caught(CurrentAction.toolId, "Tool not found")
    /\ UNCHANGED <<config, currentSteps, currentToolCalls, state, agentStep,
                   output, toolInput, approval, result, approvalStore, response,
                   history>>
    /\ UNCHANGED quotaVars

\* ACT: onProgress, then the start event is appended and
\* tool.execute(action.input) is called
ActExecute ==
    /\ pc = "act"
    /\ ~ToolCallsGuard
    /\ Allowed(CurrentAction.toolId)
    /\ CurrentAction.toolId \in config.tools
    /\ IF Throws("tool_call")
       THEN /\ Caught(CurrentAction.toolId, ProgressError)
            /\ UNCHANGED <<toolInput, output>>
       ELSE /\ trace' = Add(trace, Event("tool_call", CurrentAction.toolId, "input",
                                         CurrentAction.input))
            /\ toolInput' = CurrentAction.input
            /\ output' = Undef
            /\ pc' = "execute"
            /\ UNCHANGED <<actionIndex, observations>>
    /\ UNCHANGED <<config, currentSteps, currentToolCalls, state, agentStep,
                   approval, result, approvalStore, response, history>>
    /\ UNCHANGED quotaVars

Execution(toolId, input, r, attempt) ==
    [toolId |-> toolId, input |-> input, ok |-> r.ok, output |-> r.output,
     error |-> r.error, internal |-> r.internal, attempt |-> attempt]

\* the tool call succeeded: completion event, storeToolOutput, act, observe,
\* currentToolCalls++          (st is the state store just before)
Commit(st, toolId, input, out) ==
    LET st1 == storeToolOutput(st, toolId, out)
        observed == ObservedOutput(st1, toolId)
    IN  /\ state' = st1
        /\ IF Throws("observing")
           THEN \* onProgress throws before observe(): the inner catch
                /\ trace' = Add(Add(trace, Event("tool_call", toolId, "output", out)),
                                Event("tool_call", toolId, "error", ProgressError))
                /\ observations' = Append(observations, Observation(toolId, FALSE))
                /\ UNCHANGED currentToolCalls
           ELSE /\ trace' = Add(Add(trace, Event("tool_call", toolId, "output", out)),
                                Event("observe", toolId, "output", observed))
                /\ observations' = Append(observations,
                                          Observation(toolId, observed # Undef))
                /\ currentToolCalls' = currentToolCalls + 1
        /\ NextAction

\* tool.execute(action.input) returns or throws.  With a gate, a produced draft
\* goes to humanInTheLoop: the callback creates the approval request, announces
\* it to the client and awaits the promise.
ToolReturn ==
    /\ pc = "execute"
    /\ \E r \in ToolExecute(CurrentAction.toolId, toolInput,
                            Len(history.executions) + 1) :
         LET toolId == CurrentAction.toolId
             executed == Append(history.executions,
                                Execution(toolId, toolInput, r, 1))
         IN  IF ~r.ok
             THEN /\ Caught(toolId, r.error)
                  /\ history' = [history EXCEPT !.executions = executed]
                  /\ UNCHANGED <<state, currentToolCalls, output, approval,
                                 approvalStore, result>>
             ELSE IF config.gate /\ NeedsApproval(toolId) /\ Throws("observing")
             THEN /\ Caught(toolId, ProgressError)
                  /\ output' = r.output
                  /\ history' = [history EXCEPT !.executions = executed]
                  /\ UNCHANGED <<state, currentToolCalls, approval,
                                 approvalStore, result>>
             ELSE IF config.gate /\ NeedsApproval(toolId)
             THEN LET approvalId == Len(approvalStore.promises) + 1
                      S == createApprovalRequest(approvalStore, approvalId)
                  IN  /\ approvalStore' = S
                      /\ approval' =
                           [promise |-> Len(S.promises),
                            events |-> Append(approval.events,
                                [type |-> "approval_required", approvalId |-> approvalId])]
                      /\ output' = r.output
                      /\ history' = [history EXCEPT
                           !.executions = executed,
                           !.gateCalls = Append(@, [toolId |-> toolId,
                                                    output |-> r.output,
                                                    execution |-> Len(executed),
                                                    step |-> currentSteps,
                                                    action |-> actionIndex])]
                      /\ pc' = "approval"
                      /\ UNCHANGED <<state, trace, observations, currentToolCalls,
                                     actionIndex, result>>
             ELSE /\ Commit(state, toolId, CurrentAction.input, r.output)
                  /\ output' = r.output
                  /\ history' = [history EXCEPT !.executions = executed]
                  /\ UNCHANGED <<approval, approvalStore, result>>
    /\ UNCHANGED <<config, currentSteps, agentStep, toolInput, response>>
    /\ UNCHANGED quotaVars

\* (a callback that takes a failed request for an approval)
CallbackDecisionApproves(promise) ==
    IF promise.status = "resolved" THEN promise.value
    ELSE [decision |-> "approve", feedback |-> UndefStr]

\* what the callback returns once its promise is settled
CallbackDecision(promise) ==
    IF promise.status = "resolved" THEN promise.value
    ELSE [decision |-> "reject", feedback |-> UndefStr]

\* the tests run() makes on what humanInTheLoop returned
\* (a run that does not tell reject from approve)
IsRejectNever(data) == FALSE
IsReject(data) == data.decision = "reject"
IsRegenerate(data) == data.decision = "regenerate"

\* humanInTheLoop returns: reject ends the run, regenerate executes the tool
\* again, approve commits the output
ApprovalReturn ==
    /\ pc = "approval"
    /\ approvalStore.promises[approval.promise].status # "pending"
    /\ LET promise == approvalStore.promises[approval.promise]
           data == CallbackDecision(promise)
           toolId == CurrentAction.toolId
       IN  /\ approval' = [approval EXCEPT !.events = Append(@,
                 [type |-> IF promise.status = "resolved" THEN "approval_received"
                           ELSE "approval_error",
                  approvalId |-> promise.id])]
           /\ IF IsReject(data)
              THEN /\ trace' = Add(trace, Event("tool_call", toolId,
                                                "humanRejected", output))
                   /\ Return(FALSE, "Content generation rejected by human-in-the-loop")
                   /\ UNCHANGED <<state, observations, currentToolCalls, actionIndex,
                                  toolInput>>
              ELSE IF IsRegenerate(data)
              THEN /\ toolInput' = RegenerateInput(toolId, CurrentAction.input,
                                                   data.feedback)
                   /\ pc' = "regenerate"
                   /\ UNCHANGED <<state, trace, observations, currentToolCalls,
                                  actionIndex, result>>
              ELSE /\ Commit(state, toolId, CurrentAction.input, output)
                   /\ UNCHANGED <<toolInput, result>>
    /\ UNCHANGED <<config, currentSteps, agentStep, output, approvalStore, response,
                   history>>
    /\ UNCHANGED quotaVars

\* the second execution returns or throws; its output is not shown to the gate
RegenerateReturn ==
    /\ pc = "regenerate"
    /\ \E r \in ToolExecute(CurrentAction.toolId, toolInput,
                            Len(history.executions) + 1) :
         LET toolId == CurrentAction.toolId
         IN  /\ history' = [history EXCEPT !.executions =
                               Append(@, Execution(toolId, toolInput, r, 2))]
             /\ IF ~r.ok
                THEN /\ Caught(toolId, r.error)
                     /\ UNCHANGED <<state, currentToolCalls, output, result>>
                ELSE /\ Commit(IF toolId = GEN
                               THEN StateSet(state, "userFeedback", UndefStr)
                               ELSE state,
                               toolId, CurrentAction.input, r.output)
                     /\ output' = r.output
                     /\ UNCHANGED result
    /\ UNCHANGED <<config, currentSteps, agentStep, toolInput, approval,
                   approvalStore, response>>
    /\ UNCHANGED quotaVars

\* REFLECT: onProgress, reflect(), the agent_step event, and the test that
\* ends the loop
Reflect ==
    /\ pc = "reflect"
    /\ LET reflection == reflect(state, config.maxIterations)
           tr == Add(trace \o reflection.events,
                     Event("agent_step", UndefStr, "step", reflection.shouldContinue))
       IN  IF Throws("reflecting")
           THEN OuterCatch(trace, ProgressError)
           ELSE IF reflection.shouldContinue
           THEN trace' = tr /\ pc' = "loop" /\ UNCHANGED result
           ELSE Complete(tr)
    /\ UNCHANGED <<config, currentSteps, currentToolCalls, state, agentStep,
                   actionIndex, observations, output, toolInput, approval,
                   approvalStore, response, history>>
    /\ UNCHANGED quotaVars

(***************************************************************************)
(* The approval route (POST), the timers and the clock.  The event loop    *)
(* runs a request handler or a timer callback only while run() is          *)
(* suspended on a tool or on the gate, is over, or there is no run.        *)
(***************************************************************************)
Suspended == pc \in {"execute", "approval", "regenerate", "done", "idle"}

\* the ids the client has been sent in approval_required events
Announced == {approval.events[i].approvalId : i \in 1..Len(approval.events)}

\* POST /api/approval on a request that is pending
PostApproval ==
    /\ Suspended
    /\ \E approvalId \in Announced, decision \in Decisions,
          feedback \in FeedbackInputs :
         /\ hasRequest(approvalStore, approvalId)
         /\ LET r == resolveApproval(approvalStore, approvalId, decision, feedback)
            IN  /\ approvalStore' = r.store
                /\ response' = IF r.returns THEN "success" ELSE "not found"
    /\ UNCHANGED orchVars
    /\ UNCHANGED history
    /\ UNCHANGED quotaVars

\* POST /api/approval on a request that is not: whatever the decision posted,
\* resolveApproval returns at its first test
PostApprovalMissed ==
    /\ Suspended
    /\ \E approvalId \in Announced :
         /\ ~hasRequest(approvalStore, approvalId)
         /\ LET r == resolveApproval(approvalStore, approvalId, "approve", UndefStr)
            IN  /\ approvalStore' = r.store
                /\ response' = IF r.returns THEN "success" ELSE "not found"
    /\ UNCHANGED orchVars
    /\ UNCHANGED history
    /\ UNCHANGED quotaVars

TimerFires ==
    /\ Suspended
    /\ \E p \in 1..Len(approvalStore.promises) :
         /\ approvalStore.promises[p].timer
         /\ approvalStore.promises[p].age >= TIMEOUT
         /\ approvalStore' = timeoutCallback(approvalStore, p)
    /\ UNCHANGED orchVars
    /\ UNCHANGED <<response, history>>
    /\ UNCHANGED quotaVars

Tick ==
    /\ Suspended
    /\ \E p \in 1..Len(approvalStore.promises) :
         Live(approvalStore, p) /\ approvalStore.promises[p].age <= TIMEOUT
    /\ approvalStore' = Aged(approvalStore)
    /\ UNCHANGED orchVars
    /\ UNCHANGED <<response, history>>
    /\ UNCHANGED quotaVars

RunNext ==
    \/ Start \/ LoopExit \/ Plan
    \/ ActMaxToolCalls \/ ActNotAllowed \/ ActToolNotFound \/ ActExecute
    \/ ToolReturn \/ ApprovalReturn \/ RegenerateReturn \/ Reflect

Next == RunNext \/ PostApproval \/ PostApprovalMissed \/ TimerFires \/ Tick

Spec == Init /\ [][Next]_vars

\* what the code's scheduling guarantees: run() goes on whenever it can (a
\* tool call returns), time passes and a timer that is due fires
FairSpec ==
    /\ Spec
    /\ WF_vars(RunNext)
    /\ WF_vars(Tick)
    /\ WF_vars(TimerFires)

(***************************************************************************)
(* The approval store on its own, called through its API by any number of  *)
(* runs and routes: no run of this process is modelled (pc = "idle").      *)
(***************************************************************************)
StoreIds == 1..MaxIds

InitStore ==
    /\ config = [agentKind |-> "BriefAgent", tools |-> LyricsTools,
                 allowedTools |-> LyricsTools, maxSteps |-> 1, maxToolCalls |-> 1,
                 maxIterations |-> DefaultMaxIterations, gate |-> TRUE,
                 onProgress |-> NoProgress,
                 input |-> Undef, initialState |-> EmptyState]
    /\ pc = "idle"
    /\ currentSteps = 0
    /\ currentToolCalls = 0
    /\ state = EmptyState
    /\ trace = <<>>
    /\ agentStep = <<>>
    /\ actionIndex = 0
    /\ observations = <<>>
    /\ output = Undef
    /\ toolInput = Undef
    /\ approval = NoApproval
    /\ result = NoResult
    /\ approvalStore = EmptyStore
    /\ response = NoResponse
    /\ history = EmptyHistory
    /\ useMockLLM = FALSE
    /\ usage = NoUsage
    /\ requests = NoRequests

StoreCalls ==
    { [decision |-> "approve", feedback |-> UndefStr],
      [decision |-> "reject", feedback |-> "   "],
      [decision |-> "regenerate", feedback |-> " shorter chorus "] }

StoreCreate ==
    /\ pc = "idle"
    /\ Len(approvalStore.promises) < MaxRequests
    /\ \E requestId \in StoreIds :
         approvalStore' = createApprovalRequest(approvalStore, requestId)
    /\ UNCHANGED orchVars
    /\ UNCHANGED <<response, history>>
    /\ UNCHANGED quotaVars

StoreResolve ==
    /\ pc = "idle"
    /\ \E requestId \in StoreIds, call \in StoreCalls :
         /\ hasRequest(approvalStore, requestId)
         /\ LET r == resolveApproval(approvalStore, requestId,
                                     call.decision, call.feedback)
            IN  /\ approvalStore' = r.store
                /\ response' = IF r.returns THEN "success" ELSE "not found"
    /\ UNCHANGED orchVars
    /\ UNCHANGED history
    /\ UNCHANGED quotaVars

StoreResolveMissed ==
    /\ pc = "idle"
    /\ \E requestId \in StoreIds :
         /\ ~hasRequest(approvalStore, requestId)
         /\ LET r == resolveApproval(approvalStore, requestId, "approve", UndefStr)
            IN  /\ approvalStore' = r.store
                /\ response' = IF r.returns THEN "success" ELSE "not found"
    /\ UNCHANGED orchVars
    /\ UNCHANGED history
    /\ UNCHANGED quotaVars

StoreNext ==
    StoreCreate \/ StoreResolve \/ StoreResolveMissed \/ TimerFires \/ Tick

SpecStore == InitStore /\ [][StoreNext]_vars

(***************************************************************************)
(* The melody route under concurrent requests of one identity: the quota   *)
(* check, the run and the increment of each request, interleaved at the    *)
(* awaits of POST.  The run itself is the Orchestrator's, taken here by    *)
(* its result.                                                             *)
(***************************************************************************)
InitQuota ==
    /\ config = [agentKind |-> "MelodyAgent", tools |-> MelodyTools,
                 allowedTools |-> MelodyTools, maxSteps |-> 1, maxToolCalls |-> 1,
                 maxIterations |-> DefaultMaxIterations, gate |-> FALSE,
                 onProgress |-> NoProgress,
                 input |-> NoInput, initialState |-> EmptyState]
    /\ pc = "idle"
    /\ currentSteps = 0
    /\ currentToolCalls = 0
    /\ state = EmptyState
    /\ trace = <<>>
    /\ agentStep = <<>>
    /\ actionIndex = 0
    /\ observations = <<>>
    /\ output = Undef
    /\ toolInput = Undef
    /\ approval = NoApproval
    /\ result = NoResult
    /\ approvalStore = EmptyStore
    /\ response = NoResponse
    /\ history = EmptyHistory
    /\ useMockLLM \in BOOLEAN
    /\ usage = NoUsage
    /\ requests = NoRequests

RECURSIVE Count(_)
Count(positions) ==
    IF positions = {} THEN 0
    ELSE LET p == CHOOSE q \in positions : TRUE
         IN  requests[p] + Count(positions \ {p})

Move(from, to) == [requests EXCEPT ![from] = @ - 1, ![to] = @ + 1]

\* QuotaService.checkQuota's test on the row it read: TRUE when it returns,
\* FALSE when it throws QuotaExceededError
checkQuota(used, limit) == ~(used >= limit)

\* POST is called: the request reaches `await quotaService.checkQuota`
MelodyPost ==
    /\ Count(Positions) < MaxMelodyRequests
    /\ requests' = [requests EXCEPT !["checkQuota"] = @ + 1]
    /\ UNCHANGED <<useMockLLM, usage>>
    /\ UNCHANGED orchVars
    /\ UNCHANGED <<approvalStore, response, history>>

\* checkQuota up to the answer of findUnique: mock mode returns at once, no
\* row sends the request to prisma.usage.create, a row is tested
CheckQuota ==
    /\ requests["checkQuota"] > 0
    /\ requests' =
         IF useMockLLM THEN Move("checkQuota", "load")
         ELSE IF ~usage.exists THEN Move("checkQuota", "create")
         ELSE IF checkQuota(usage.requestsUsed, usage.requestsLimit)
              THEN Move("checkQuota", "load")
              ELSE Move("checkQuota", "quota exceeded")
    /\ UNCHANGED <<useMockLLM, usage>>
    /\ UNCHANGED orchVars
    /\ UNCHANGED <<approvalStore, response, history>>

\* the answer of prisma.usage.create: the row of the day with nothing used,
\* which is tested; or the unique key of the row is taken by now, create
\* rejects and POST ends in its catch
CreateUsage ==
    /\ requests["create"] > 0
    /\ IF usage.exists
       THEN /\ requests' = Move("create", "error")
            /\ UNCHANGED usage
       ELSE /\ usage' = UsageRecord(0, DEFAULT_LIMIT)
            /\ requests' = IF checkQuota(0, DEFAULT_LIMIT)
                           THEN Move("create", "load")
                           ELSE Move("create", "quota exceeded")
    /\ UNCHANGED useMockLLM
    /\ UNCHANGED orchVars
    /\ UNCHANGED <<approvalStore, response, history>>

\* the answer of prisma.song.findUnique: no song ends the request, a song
\* goes on to orchestrator.run
LoadSong ==
    /\ requests["load"] > 0
    /\ \E found \in BOOLEAN :
         requests' = Move("load", IF found THEN "run" ELSE "song not found")
    /\ UNCHANGED <<useMockLLM, usage>>
    /\ UNCHANGED orchVars
    /\ UNCHANGED <<approvalStore, response, history>>

\* orchestrator.run returns: only a successful run goes on to incrementQuota
RunReturns ==
    /\ requests["run"] > 0
    /\ \E success \in BOOLEAN :
         requests' = Move("run", IF success THEN "incrementQuota" ELSE "run failed")
    /\ UNCHANGED <<useMockLLM, usage>>
    /\ UNCHANGED orchVars
    /\ UNCHANGED <<approvalStore, response, history>>

\* QuotaService.incrementQuota: the upsert adds one to the row, or creates it
IncrementQuota ==
    /\ requests["incrementQuota"] > 0
    /\ usage' = IF useMockLLM THEN usage
                ELSE IF usage.exists
                     THEN [usage EXCEPT !.requestsUsed = @ + 1]
                     ELSE UsageRecord(1, DEFAULT_LIMIT)
    /\ requests' = Move("incrementQuota", "complete")
    /\ UNCHANGED useMockLLM
    /\ UNCHANGED orchVars
    /\ UNCHANGED <<approvalStore, response, history>>

QuotaNext ==
    MelodyPost \/ CheckQuota \/ CreateUsage \/ LoadSong \/ RunReturns \/ IncrementQuota

SpecQuota == InitQuota /\ [][QuotaNext]_vars

(***************************************************************************)
(* Claims.                                                                 *)
(***************************************************************************)
MaxToolCallsError == "Max tool calls exceeded"
RejectedError == "Content generation rejected by human-in-the-loop"

\* the run has returned
Done == pc = "done"

\* the promise of gate call g (the callback creates one request per call)
GatePromise(g) == approvalStore.promises[g]

\* C1.  With maxSteps = N, whatever the policy and the tools do, a run whose
\* tool calls and gate calls all return terminates, and the decision policy is
\* consulted (plan phase) at most N times.
C1_TerminatesWithinMaxSteps ==
    /\ <>Done
    /\ [](history.policyCalls <= config.maxSteps)

\* a run that ended after consulting the policy maxSteps times, more than once
C1_Witness ==
    /\ Done
    /\ config.maxSteps > 1
    /\ history.policyCalls = config.maxSteps

\* C2.  The number of tool executions of a run, failed ones and the
\* re-execution after a regenerate decision included, never exceeds
\* maxToolCalls.
C2_ExecutionsWithinMaxToolCalls ==
    Len(history.executions) <= config.maxToolCalls

\* C3.  When an action is requested while currentToolCalls >= maxToolCalls, the
\* run ends at once with success=false and the max-tool-calls error, and the
\* tool is not executed; a run that ended with an action requested and the
\* budget used up has that result (maxToolCalls = 1 and two calls needed).
\* Stated for runs whose progress callback does not throw in the 'error'
\* phase; that case is the subject of C17.
C3_AtGuard ==
    /\ pc = "act"
    /\ currentToolCalls >= config.maxToolCalls
    /\ ~Throws("error")

C3_EndedOnRequest ==
    /\ Done
    /\ Len(observations) < actionIndex
    /\ currentToolCalls >= config.maxToolCalls
    /\ ~Throws("error")

C4_PolicyWouldAct ==
    \A d \in AgentDecisions(config.agentKind, state, config.tools) :
        ~d.throws /\ d.actions # <<>>

C4_StoppedByStepBudget ==
    /\ Done
    /\ currentSteps = config.maxSteps
    /\ trace # <<>>
    /\ trace[Len(trace)].type = "agent_step"
    /\ trace[Len(trace)].carries = "step"
    /\ trace[Len(trace)].value
    /\ C4_PolicyWouldAct

C5_Pending(g) == GatePromise(g).status = "pending"
C5_Rejected(g) ==
    /\ GatePromise(g).status = "resolved"
    /\ GatePromise(g).value.decision = "reject"

\* C5.  When the gate returns reject for a produced output, the run ends with
\* success=false and the rejection error, no further tool is executed, and the
\* rejected output is at no point stored under songStructure.
C5_RejectEndsRun ==
    \A g \in 1..Len(history.gateCalls) :
        LET call == history.gateCalls[g]
        IN  /\ (C5_Pending(g) \/ C5_Rejected(g)) =>
                   state.songStructure # call.output
            /\ C5_Rejected(g) =>
                   /\ pc \in {"approval", "done"}
                   /\ Len(history.executions) = call.execution
                   /\ Done => result = Returned(FALSE, RejectedError)

\* a run ended by a reject decision posted for its first draft
C5_Witness ==
    /\ Done
    /\ Len(history.gateCalls) = 1
    /\ C5_Rejected(1)
    /\ result = Returned(FALSE, RejectedError)
    /\ history.gateCalls[1].toolId = GEN

\* the gate call that showed the output of execution i
C6_GateCallOf(i) ==
    CHOOSE g \in 1..Len(history.gateCalls) : history.gateCalls[g].execution = i

\* C6.  After a regenerate decision with feedback the same tool is executed
\* exactly one more time, with the original input plus the feedback as
\* userFeedback; the gate is not consulted for the second execution, and the
\* second output is what is committed.
C6_RegenerateWithFeedback ==
    \A i \in 1..Len(history.executions) :
        LET second == history.executions[i]
        IN  second.attempt = 2 =>
              /\ i > 1
              /\ \E g \in 1..Len(history.gateCalls) : history.gateCalls[g].execution = i - 1
              /\ LET first == history.executions[i - 1]
                     data == GatePromise(C6_GateCallOf(i - 1)).value
                 IN  /\ first.attempt = 1
                     /\ second.toolId = first.toolId
                     /\ data.decision = "regenerate"
                     /\ Truthy(data.feedback) =>
                            second.input = [first.input EXCEPT !.userFeedback = data.feedback]
              /\ \A g \in 1..Len(history.gateCalls) : history.gateCalls[g].execution # i
              /\ (i < Len(history.executions)) => history.executions[i + 1].attempt = 1
              /\ (i = Len(history.executions) /\ second.ok) =>
                     state.songStructure = second.output

\* C7.  With a gate, the output of a content-producing call is not in state
\* while the decision on it is pending; songStructure is written only once the
\* gate has returned, and on approve with exactly the output shown to the gate.
C7_Shown == history.gateCalls[Len(history.gateCalls)].output

C7_Approved ==
    /\ approvalStore.promises[approval.promise].status = "resolved"
    /\ approvalStore.promises[approval.promise].value.decision = "approve"

C7_CommitAfterGate ==
    /\ [](pc = "approval" =>
            /\ state.songStructure # C7_Shown
            /\ state.evaluation # C7_Shown)
    /\ [][(config.gate /\ state'.songStructure # state.songStructure) =>
            \/ pc = "regenerate"
            \/ pc = "approval" /\ C7_Approved /\ state'.songStructure = C7_Shown]_vars
    /\ [][(pc = "approval" /\ pc' # "approval" /\ C7_Approved) =>
            state'.songStructure = C7_Shown]_vars

\* an improved draft that was approved and is now the song of the state
C7_Witness ==
    /\ Len(history.gateCalls) >= 1
    /\ history.gateCalls[Len(history.gateCalls)].toolId = IMP
    /\ pc # "approval"
    /\ approval.promise # 0
    /\ C7_Approved
    /\ state.songStructure = C7_Shown

\* the calls of promise p's resolvers that delivered a decision
C8_Decisions(p) ==
    {i \in 1..Len(approvalStore.promises[p].calls) :
        approvalStore.promises[p].calls[i].by = "decision"}

\* C8.  At most one decision is ever delivered to a waiter.  resolveApproval
\* returns true for a call on a pending id, which resolves the waiter with that
\* decision and removes the entry; on any other id (unknown, resolved, timed
\* out) it returns false and changes neither a waiter nor the pending table.
C8_OneDecisionPerRequest ==
    /\ \A p \in 1..Len(approvalStore.promises) :
          /\ Cardinality(C8_Decisions(p)) <= 1
          /\ C8_Decisions(p) \subseteq {1}
          /\ approvalStore.promises[p].status = "resolved" <=> C8_Decisions(p) = {1}
    /\ \A requestId \in StoreIds, call \in StoreCalls :
          LET r == resolveApproval(approvalStore, requestId, call.decision, call.feedback)
          IN  IF hasRequest(approvalStore, requestId)
              THEN LET p == get(approvalStore.pendingApprovals, requestId).promise
                   IN  /\ r.returns
                       /\ ~hasRequest(r.store, requestId)
                       /\ approvalStore.promises[p].status = "pending"
                       /\ r.store.promises[p].status = "resolved"
                       /\ r.store.promises[p].value.decision = call.decision
                       /\ \A q \in 1..Len(approvalStore.promises) :
                             q # p => r.store.promises[q] = approvalStore.promises[q]
              ELSE /\ ~r.returns
                   /\ r.store = approvalStore

\* a request was resolved by the one decision it got, and a later call was
\* answered not found
C8_Witness ==
    /\ response = "not found"
    /\ \E p \in 1..Len(approvalStore.promises) :
          /\ approvalStore.promises[p].status = "resolved"
          /\ Len(approvalStore.promises[p].calls) = 1
          /\ ~hasRequest(approvalStore, approvalStore.promises[p].id)
    /\ \E p \in 1..Len(approvalStore.promises) :
          /\ approvalStore.promises[p].status = "rejected"
          /\ ~hasRequest(approvalStore, approvalStore.promises[p].id)

\* C9.  A pending request that gets no decision within the timeout is rejected
\* (not before the timeout) and removed from the pending table; the run
\* suspended on it ends with success=false as after an explicit reject, and the
\* produced output is not committed.
C9_TimedOut(p) ==
    /\ approvalStore.promises[p].status = "rejected"
    /\ approvalStore.promises[p].value = "Approval request timed out"

C9_Awaited == approvalStore.promises[approval.promise]

C9_TimeoutRejects ==
    /\ [](\A g \in 1..Len(history.gateCalls) :
            C9_TimedOut(g) =>
               /\ ~holds(approvalStore.pendingApprovals, g)
               /\ ~hasRequest(approvalStore, GatePromise(g).id)
               /\ state.songStructure # history.gateCalls[g].output
               /\ pc \in {"approval", "done"}
               /\ Len(history.executions) = history.gateCalls[g].execution
               /\ Done => result = Returned(FALSE, RejectedError))
    /\ [][\A p \in 1..Len(approvalStore.promises) :
            (/\ approvalStore.promises[p].status = "pending"
             /\ approvalStore'.promises[p].status = "rejected")
            => approvalStore.promises[p].age >= TIMEOUT]_vars
    /\ (pc = "approval" /\ C9_Awaited.status = "pending")
          ~> (approval.promise # 0 /\ C9_Awaited.status # "pending")
    /\ (pc = "approval") ~> Done

\* a run ended by the timeout of the request for its first draft
C9_Witness ==
    /\ Done
    /\ Len(history.gateCalls) = 1
    /\ C9_TimedOut(1)
    /\ result = Returned(FALSE, RejectedError)
    /\ approvalStore.promises[1].calls = <<[by |-> "timeout", entryPresent |-> FALSE]>>

C11_ImproveBranch ==
    /\ pc = "loop"
    /\ LoopGuard
    /\ config.agentKind \in {"BriefAgent", "MelodyAgent"}
    /\ config.agentKind = "MelodyAgent" => state.melodyStructure # Undef
    /\ state.evaluation # Undef
    /\ state.songStructure # Undef
    /\ state.evaluation.needsImprovement

C11_OnlyPlusOneOnImprove ==
    [][state'.iterationCount # state.iterationCount =>
            /\ state'.iterationCount = state.iterationCount + 1
            /\ C11_ImproveBranch]_vars

C11_WithinConfiguredMaxIterations ==
    state.iterationCount <= config.maxIterations

\* C12.  Every call of the policy (BriefAgent.execute) that returns, returns
\* zero actions or exactly one, chosen from the current state alone in a
\* fixed priority: no draft and an input: generate; a draft without
\* evaluation: evaluate; an evaluation that needs improvement and
\* iterationCount below the agent's maxIterations: improve; otherwise none.
C12_Choice(st) ==
    IF st.songStructure = Undef /\ st.initialInput # Undef THEN <<GEN>>
    ELSE IF st.songStructure # Undef /\ st.evaluation = Undef THEN <<EVAL>>
    ELSE IF /\ st.songStructure # Undef /\ st.evaluation # Undef
            /\ st.evaluation.needsImprovement
            /\ st.iterationCount < AgentMaxIterations
    THEN <<IMP>>
    ELSE <<>>

\* the policy was called in this step and returned: plan() adds its event
C12_PolicyReturned ==
    /\ config.agentKind = "BriefAgent"
    /\ history'.policyCalls = history.policyCalls + 1
    /\ Len(trace') > Len(trace)
    /\ trace'[Len(trace) + 1].type = "plan"

C13_NotAllowedRequested ==
    /\ pc = "act"
    /\ currentToolCalls < config.maxToolCalls
    /\ agentStep[actionIndex].toolId \notin config.allowedTools

C13_NotAllowedNeverExecuted ==
    /\ [](\A i \in 1..Len(history.executions) :
              history.executions[i].toolId \in config.allowedTools)
    /\ [][C13_NotAllowedRequested =>
            /\ history'.executions = history.executions
            /\ observations' =
                   Append(observations,
                          Observation(agentStep[actionIndex].toolId, FALSE))
            /\ currentToolCalls' = currentToolCalls
            /\ state' = state
            /\ trace' = trace
            /\ result' = result
            /\ pc' \in {"act", "reflect"}]_vars

\* the tool outside the allow-list was requested and refused, and the run
\* went on to reflect
C13_Witness ==
    /\ pc = "reflect"
    /\ history.refused = <<FORBIDDEN>>
    /\ FORBIDDEN \in config.tools
    /\ observations = <<Observation(FORBIDDEN, FALSE)>>
    /\ history.executions = <<>>

\* C14.  When the policy requests an allowed tool id for which the agent has
\* no tool, the run ends immediately with success=false and an error that
\* names the missing tool.
C14_MissingToolRequested ==
    \E i \in 1..Len(trace) : trace[i].toolId = UNKNOWN

C14_MissingToolEndsRun ==
    C14_MissingToolRequested =>
        /\ Done
        /\ result = Returned(FALSE, "Tool not found")

\* C15.  A run in which the policy has requested a tool id outside
\* allowedTools is reported as success=false.
C15_NotAllowedRunFails ==
    (Done /\ history.refused # <<>>) =>
        (result.returned /\ ~result.success)

\* C16.  When an executed tool fails (its input is refused or its work
\* throws), the run is not aborted: a tool_call error event and a failed
\* observation are recorded, nothing is committed to the state, no tool call
\* is counted, and the loop moves on to the next action or to reflect and
\* the next plan phase.
C16_ToolFailed ==
    /\ Len(history'.executions) = Len(history.executions) + 1
    /\ ~history'.executions[Len(history'.executions)].ok

C16_FailedToolDoesNotAbort ==
    [][C16_ToolFailed =>
            LET toolId == history'.executions[Len(history'.executions)].toolId
                last == trace'[Len(trace')]
            IN  /\ Len(trace') = Len(trace) + 1
                /\ SubSeq(trace', 1, Len(trace)) = trace
                /\ last.type = "tool_call"
                /\ last.toolId = toolId
                /\ last.carries = "error"
                /\ observations' = Append(observations, Observation(toolId, FALSE))
                /\ state' = state
                /\ currentToolCalls' = currentToolCalls
                /\ result' = result
                /\ pc' \in {"act", "reflect"}]_vars

\* the first execution failed and the run has reached its second plan phase
C16_Witness ==
    /\ pc = "act"
    /\ history.policyCalls = 2
    /\ Len(history.executions) = 1
    /\ ~history.executions[1].ok
    /\ InputValid(history.executions[1].toolId, history.executions[1].input)
    /\ state.songStructure = Undef
    /\ currentToolCalls = 0

\* C17.  run() never throws: whatever exception the policy, a tool, the gate
\* or the progress callback raises, the caller receives a result object
\* with success=false and an error.
C17_RunNeverThrows ==
    /\ ~result.threw
    /\ Done => result.returned

\* C18.  An exception thrown by the progress callback never changes the run:
\* tool calls, state writes, trace events and result are those of the run
\* without a callback, so the callback's error shows neither in the result
\* nor in a trace event.
C18_CallbackErrorInvisible ==
    /\ result.error # ProgressError
    /\ \A i \in 1..Len(trace) :
           trace[i].carries = "error" => trace[i].value # ProgressError

\* C19.  Every tool execution that ran, the failed ones and the second
\* execution of a regenerate included, is bracketed by tool_call events of
\* its own: a start event before it and a completion or error event after
\* it.  So between tool calls there are as many start events as executions,
\* and at least as many completion or error events.
C19_StartEvents ==
    {i \in 1..Len(trace) : trace[i].type = "tool_call" /\ trace[i].carries = "input"}

C19_EndEvents ==
    {i \in 1..Len(trace) :
        /\ trace[i].type = "tool_call"
        /\ trace[i].carries \in {"output", "error", "humanRejected"}}

C19_ExecutionsBracketed ==
    pc \notin {"execute", "approval", "regenerate"} =>
        /\ Cardinality(C19_StartEvents) = Len(history.executions)
        /\ Cardinality(C19_EndEvents) >= Len(history.executions)

\* C20.  Within every loop iteration the trace events appear in phase order
\* (plan, tool_call start, tool_call completion, observe, reflect,
\* agent_step), each phase that ran leaves its event, and the events of one
\* iteration precede those of the next: the trace is a word of the phase
\* automaton below, every returned policy call has its plan event, every
\* observe its observe event and every reflect its reflect event.
C20_Kind(e) ==
    IF e.type = "tool_call"
    THEN CASE e.carries = "input" -> "start"
           [] e.carries = "output" -> "completion"
           [] e.carries = "humanRejected" -> "rejected"
           [] OTHER -> "error"
    ELSE IF e.type = "agent_step"
    THEN CASE e.carries = "step" -> IF e.value THEN "continue" ELSE "stop"
           [] e.carries = "reason" -> "stop"
           [] OTHER -> "failure"
    ELSE e.type

C20_NextPhase(phase, e) ==
    LET k == C20_Kind(e)
    IN  CASE phase = "idle" /\ k = "plan" -> "planned"
          [] phase = "idle" /\ k = "failure" -> "ended"
          [] phase = "planned" /\ k = "stop" /\ e.carries = "reason" -> "closing"
          [] phase \in {"planned", "acting"} /\ k = "start" -> "started"
          [] phase \in {"planned", "acting"} /\ k = "error" -> "acting"
          [] phase \in {"planned", "acting"} /\ k = "reflect" -> "reflected"
          [] phase \in {"planned", "acting"} /\ k = "failure" -> "ended"
          [] phase = "started" /\ k = "completion" -> "completed"
          [] phase = "started" /\ k = "error" -> "acting"
          [] phase = "started" /\ k = "rejected" -> "ended"
          [] phase = "completed" /\ k = "observe" -> "acting"
          [] phase = "completed" /\ k = "error" -> "acting"
          [] phase = "reflected" /\ k = "continue" -> "idle"
          [] phase = "reflected" /\ k = "stop" /\ e.carries = "step" -> "closing"
          [] phase = "closing" /\ k = "failure" -> "ended"
          [] OTHER -> "out of order"

RECURSIVE C20_Phase(_, _)
C20_Phase(i, phase) ==
    IF i > Len(trace) THEN phase
    ELSE C20_Phase(i + 1, C20_NextPhase(phase, trace[i]))

C20_Count(type) == Cardinality({i \in 1..Len(trace) : trace[i].type = type})

C20_EventsInPhaseOrder ==
    /\ C20_Phase(1, "idle") # "out of order"
    /\ ~Done => C20_Count("plan") = history.policyCalls
    /\ C20_Count("observe") = currentToolCalls
    /\ C20_Count("reflect") =
           Cardinality({i \in 1..Len(trace) :
                           trace[i].type = "agent_step" /\ trace[i].carries = "step"})

\* a finished run of three iterations (evaluate, improve, evaluate) with
\* their tool calls, observes and reflects
C20_Witness ==
    /\ Done
    /\ result = Returned(TRUE, UndefStr)
    /\ config.initialState = [EmptyState EXCEPT !.songStructure = Draft0]
    /\ C20_Count("plan") = 3
    /\ C20_Count("observe") = 3
    /\ C20_Count("reflect") = 3
    /\ C20_Phase(1, "idle") = "closing"

\* C21.  For every terminated run the final trace event carries a
\* termination reason, and that reason is exactly one of: quality
\* acceptable, max iterations reached, initial-generation-class
\* continuation, guardrail breach, approval rejection; it is the reason the
\* run ended for.  (Stated for the runs that end through one of run()'s own
\* returns; a run that ends in the outer catch ends with the agent_step
\* event of its exception.)
C21_Reasons ==
    {"quality acceptable", "max iterations reached", "continuation",
     "guardrail breach", "approval rejection"}

\* the reason the final event of trace tr carries ("none": it carries none
\* of the five); the agent_step event of a step carries the reflection that
\* reflect() has just recorded in the event before it
C21_Reason(tr) ==
    LET e == tr[Len(tr)]
    IN  IF e.type = "tool_call"
        THEN IF e.carries = "humanRejected" THEN "approval rejection" ELSE "none"
        ELSE IF e.type # "agent_step" THEN "none"
        ELSE IF e.carries = "reason"
        THEN CASE e.value = "Quality is acceptable" -> "quality acceptable"
               [] e.value = "Max iterations reached" -> "max iterations reached"
               [] OTHER -> "none"
        ELSE IF e.carries = "error"
        THEN IF e.value = MaxToolCallsError THEN "guardrail breach" ELSE "none"
        ELSE IF Len(tr) < 2 \/ tr[Len(tr) - 1].type # "reflect" THEN "none"
        ELSE LET r == tr[Len(tr) - 1]
             IN  CASE r.carries = "nextStep" -> "continuation"
                   [] r.value = "initial_generation" -> "continuation"
                   [] r.value = "quality_acceptable" -> "quality acceptable"
                   [] r.value = "max_iterations" -> "max iterations reached"
                   [] OTHER -> "none"

C21_FinalEventNamesReason ==
    (/\ Done /\ result.returned /\ config.agentKind = "BriefAgent"
     /\ result.error \in {UndefStr, MaxToolCallsError, RejectedError}) =>
        /\ trace # <<>>
        /\ C21_Reason(trace) \in C21_Reasons
        /\ result.error = MaxToolCallsError <=> C21_Reason(trace) = "guardrail breach"
        /\ result.error = RejectedError <=> C21_Reason(trace) = "approval rejection"

\* C22.  In a lyrics run with no gate, maxIterations = 3 and an evaluator
\* that answers the first draft with needsImprovement = true (quality 6) and
\* the second with needsImprovement = false (a quality below the 8.5 of
\* reflect), every tool call succeeding and the budgets allowing four steps
\* and four tool calls, the tools executed are exactly generate, evaluate,
\* improve, evaluate in that order and the run ends with success = true and
\* iterationCount = 1.
C22_Evaluations ==
    SelectSeq(history.executions, LAMBDA x : x.toolId = EVAL)

C22_Scenario ==
    /\ config.agentKind = "BriefAgent"
    /\ ~config.gate
    /\ config.onProgress = NoProgress
    /\ config.maxIterations = 3
    /\ config.maxSteps >= 4
    /\ config.maxToolCalls >= 4
    /\ config.initialState = EmptyState
    /\ config.input = ValidInput
    /\ \A i \in 1..Len(history.executions) : history.executions[i].ok
    /\ Len(C22_Evaluations) >= 1 =>
           C22_Evaluations[1].output =
               [kind |-> "evaluation", needsImprovement |-> TRUE, quality |-> 12]
    /\ Len(C22_Evaluations) >= 2 =>
           /\ ~C22_Evaluations[2].output.needsImprovement
           /\ C22_Evaluations[2].output.quality < AcceptableQuality

C22_OneImprovementCycle ==
    (Done /\ C22_Scenario) =>
        /\ [i \in 1..Len(history.executions) |-> history.executions[i].toolId]
               = <<GEN, EVAL, IMP, EVAL>>
        /\ result = Returned(TRUE, UndefStr)
        /\ state.iterationCount = 1

\* the scenario has run to its end
C22_Witness ==
    /\ Done
    /\ C22_Scenario
    /\ Len(C22_Evaluations) = 2
    /\ state.songStructure = history.executions[3].output
    /\ state.evaluation = history.executions[4].output

\* C23.  When the policy terminates with an evaluation present, its
\* reasoning names the condition that applies: it says the quality is
\* acceptable whenever needsImprovement is false, and says max iterations
\* reached only when improvement is still needed and iterationCount has
\* reached the agent's maxIterations.
C23_PolicyTerminated ==
    /\ Done
    /\ config.agentKind = "BriefAgent"
    /\ state.evaluation # Undef
    /\ trace # <<>>
    /\ trace[Len(trace)].type = "agent_step"
    /\ trace[Len(trace)].carries = "reason"

C23_ReasoningNamesCondition ==
    C23_PolicyTerminated =>
        LET reasoning == trace[Len(trace)].value
        IN  /\ ~state.evaluation.needsImprovement =>
                   reasoning = "Quality is acceptable"
            /\ reasoning = "Max iterations reached" =>
                   /\ state.evaluation.needsImprovement
                   /\ state.iterationCount >= AgentMaxIterations

\* C24.  After the policy has emitted an improve action that carries the
\* pending userFeedback, userFeedback is cleared from the state, so that a
\* feedback text is carried by at most one improve action of a run.
C24_ImproveEmittedWithFeedback ==
    /\ pc = "act"
    /\ config.agentKind = "BriefAgent"
    /\ agentStep[1].toolId = IMP
    /\ Truthy(agentStep[1].input.userFeedback)

C24_ImprovesCarrying(feedback) ==
    {i \in 1..Len(history.executions) :
        /\ history.executions[i].toolId = IMP
        /\ history.executions[i].attempt = 1
        /\ history.executions[i].input.userFeedback = feedback}

C24_FeedbackUsedOnce ==
    /\ C24_ImproveEmittedWithFeedback => ~Truthy(state.userFeedback)
    /\ Cardinality(C24_ImprovesCarrying("shorter chorus")) <= 1

\* C25.  With a gate configured, the gate is consulted exactly once after
\* each successful execution of a content-producing tool (generate or
\* improve, of the lyrics workflow and of the melody workflow) and never for
\* an evaluation tool or for a failed execution.  (Stated for runs whose
\* progress callback does not throw.)
C25_ContentTools == {GEN, IMP, GENM, IMPM}

C25_ContentProduced ==
    {i \in 1..Len(history.executions) :
        /\ history.executions[i].ok
        /\ history.executions[i].toolId \in C25_ContentTools}

C25_GateOncePerContent ==
    (config.gate /\ config.onProgress = NoProgress) =>
        /\ \A g \in 1..Len(history.gateCalls) :
               /\ history.gateCalls[g].execution \in C25_ContentProduced
               /\ \A h \in 1..Len(history.gateCalls) :
                      history.gateCalls[h].execution = history.gateCalls[g].execution
                          => h = g
        /\ \A i \in C25_ContentProduced :
               \E g \in 1..Len(history.gateCalls) : history.gateCalls[g].execution = i

\* C26.  Tool.execute called with an input that its input schema refuses
\* never invokes the tool's internal work (executeInternal) and fails with a
\* validation error that names the tool.
C26_RefusedInputs ==
    {i \in 1..Len(history.executions) :
        ~InputValid(history.executions[i].toolId, history.executions[i].input)}

C26_InvalidInputNoWork ==
    \A i \in C26_RefusedInputs :
        LET x == history.executions[i]
        IN  /\ ~x.internal
            /\ ~x.ok
            /\ x.output = Undef
            /\ x.error = ValidationError(x.toolId)
            /\ \A t \in (LyricsTools \cup MelodyTools) \ {x.toolId} :
                   x.error # ValidationError(t)

\* evaluate-lyrics was executed with an input without a song and the error
\* of the refusal is in the trace
C26_Witness ==
    /\ C26_RefusedInputs # {}
    /\ history.executions[1].toolId = EVAL
    /\ history.executions[1].input = Undef
    /\ trace[Len(trace)] =
           Event("tool_call", EVAL, "error", "Tool EvaluateLyrics validation error")

\* C27.  In the melody workflow, when there is no melody yet and emotion or
\* mood is missing from the state, the policy raises an error instead of
\* returning an action, no tool is executed, and the run ends with
\* success = false carrying that error.
C27_ContextMissing ==
    /\ config.agentKind = "MelodyAgent"
    /\ state.songStructure # Undef
    /\ state.melodyStructure = Undef
    /\ ~Truthy(state.emotion) \/ ~Truthy(state.mood)

C27_MissingContextFailsRun ==
    C27_ContextMissing =>
        /\ history.executions = <<>>
        /\ agentStep = <<>>
        /\ history.policyCalls > 0 =>
               /\ Done
               /\ history.policyCalls = 1
               /\ result = Returned(FALSE,
                      "Emotion and mood are required for melody generation")

\* a melody run on a song whose emotion is the empty string has ended
C27_Witness ==
    /\ Done
    /\ C27_ContextMissing
    /\ state.emotion = ""
    /\ history.policyCalls = 1
    /\ trace = <<Event("agent_step", UndefStr, "error",
                       "Emotion and mood are required for melody generation")>>

\* C28.  The id of an approval request is reported as pending (hasRequest is
\* true and getPendingIds lists it) from the moment createApprovalRequest
\* returns until the request is resolved or expires, and the request is not
\* reported as pending afterwards.
C28_Reported(id) ==
    /\ hasRequest(approvalStore, id)
    /\ \E i \in 1..Len(getPendingIds(approvalStore)) :
           getPendingIds(approvalStore)[i] = id

C29_Started == Count({"run", "incrementQuota", "complete", "run failed"})

C29_AtMostLimitRunsStart ==
    ~useMockLLM => C29_Started <= DEFAULT_LIMIT

\* C30: once the output of an improve tool (improve-lyrics, improve-melody) is
\* committed the evaluation key holds no evaluation until another output is
\* committed, and the next decision of the BriefAgent's or the MelodyAgent's
\* policy is the one evaluate action: the improved draft is neither accepted
\* nor improved again on the evaluation of the draft it replaced.
C30_Commits ==
    {i \in 1..Len(trace) : trace[i].type = "tool_call" /\ trace[i].carries = "output"}

C30_ImproveCommittedLast ==
    /\ C30_Commits # {}
    /\ LET last == CHOOSE i \in C30_Commits : \A j \in C30_Commits : j <= i
       IN  trace[last].toolId \in {IMP, IMPM}

C30_Evaluates ==
    /\ Len(agentStep) = 1
    /\ agentStep[1].toolId \in {EVAL, EVALM}

C30_ImprovedDraftIsEvaluatedAnew ==
    /\ [](C30_ImproveCommittedLast => state.evaluation = Undef)
    /\ [][(/\ history'.policyCalls # history.policyCalls
           /\ config.agentKind \in {"BriefAgent", "MelodyAgent"}
           /\ C30_ImproveCommittedLast)
          => C30_Evaluates']_vars

\* the policy has answered the commit of an improved draft with evaluate
C30_Witness ==
    /\ C30_ImproveCommittedLast
    /\ state.evaluation = Undef
    /\ trace[Len(trace)].type = "plan"
    /\ pc = "act"
    /\ C30_Evaluates

\* C31: whenever reflect returns shouldContinue = false, the BriefAgent's
\* policy applied to the same state returns zero actions, for every configured
\* maxIterations: reflect ends no run the policy still has a tool to request
\* for.
C31_ReflectStops ==
    /\ config.agentKind = "BriefAgent"
    /\ pc = "reflect"
    /\ ~reflect(state, config.maxIterations).shouldContinue

C31_ReflectStopsOnlyAfterPolicy ==
    C31_ReflectStops =>
        LET d == BriefAgentExecute(state, config.tools)
        IN  ~d.throws /\ d.actions = <<>>

\* C32: in a BriefAgent run that starts with no draft and no evaluation in the
\* state, the tool outputs committed to the state are, in order, a prefix of
\* generate, evaluate, (improve, evaluate)*: generate is committed at most
\* once, and every committed improve directly follows a committed evaluate
\* that said needsImprovement.
C32_IsCommit(e) == e.type = "tool_call" /\ e.carries = "output"

C32_Committed == SelectSeq(trace, C32_IsCommit)

C32_StartsEmpty ==
    /\ config.agentKind = "BriefAgent"
    /\ config.initialState.songStructure = Undef
    /\ config.initialState.evaluation = Undef

C32_CommitsInWorkflowOrder ==
    C32_StartsEmpty =>
        \A i \in 1..Len(C32_Committed) :
            LET toolId == C32_Committed[i].toolId
            IN  /\ i = 1 => toolId = GEN
                /\ i % 2 = 0 => toolId = EVAL
                /\ (i > 1 /\ i % 2 = 1) =>
                       /\ toolId = IMP
                       /\ C32_Committed[i - 1].value.needsImprovement

\* generate, evaluate, improve and the evaluation of the improved draft
C32_Witness ==
    /\ C32_StartsEmpty
    /\ Len(C32_Committed) = 4
    /\ C32_Committed[3].toolId = IMP

\* C33: every BriefAgent run that returns success = true ends in a state with
\* a draft and an evaluation, where needsImprovement is false or
\* iterationCount has reached maxIterations.
C33_SuccessHasEvaluatedDraft ==
    (config.agentKind = "BriefAgent" /\ result.returned /\ result.success) =>
        /\ state.songStructure # Undef
        /\ state.evaluation # Undef
        /\ \/ ~state.evaluation.needsImprovement
           \/ state.iterationCount >= config.maxIterations

\* C34: at the end of a run of the BriefAgent or the MelodyAgent that started
\* with iterationCount 0, iterationCount equals the number of improve-tool
\* outputs committed to the state during the run.
C34_IsImproveCommit(e) ==
    e.type = "tool_call" /\ e.carries = "output" /\ e.toolId \in {IMP, IMPM}

C34_ImprovesCommitted == Len(SelectSeq(trace, C34_IsImproveCommit))

C34_IterationCountCountsImproves ==
    (/\ config.agentKind \in {"BriefAgent", "MelodyAgent"}
     /\ config.initialState.iterationCount = 0
     /\ pc = "done")
    => state.iterationCount = C34_ImprovesCommitted

\* C35: every promise createApprovalRequest returned is eventually settled,
\* also when its id was pending or used before.  A promise that can still be
\* settled has its resolvers in the table (resolveApproval and cleanup reach
\* them there) or its timer armed (the timer holds its reject): no promise is
\* pending with neither.
C35_CanStillSettle(p) ==
    \/ holds(approvalStore.pendingApprovals, p)
    \/ approvalStore.promises[p].timer

C35_NoWaiterLeftForever ==
    \A p \in 1..Len(approvalStore.promises) :
        approvalStore.promises[p].status = "pending" => C35_CanStillSettle(p)

\* C36: at every point of a run currentToolCalls (toolCallsMade) equals the
\* number of tool outputs committed to the state so far in the run, and is at
\* most maxToolCalls.
C36_IsCommit(e) == e.type = "tool_call" /\ e.carries = "output"

C36_OutputsCommitted == Len(SelectSeq(trace, C36_IsCommit))

C36_ToolCallsCountCommits ==
    /\ currentToolCalls = C36_OutputsCommitted
    /\ currentToolCalls <= config.maxToolCalls

\* C37: once creativeBrief has been written to the state in a run its value
\* never changes for the rest of the run, also when generate is planned again
\* after a generate call that failed or was refused.
C37_BriefNeverChanges ==
    [][state.creativeBrief # Undef => state'.creativeBrief = state.creativeBrief]_vars

\* generate has failed and the policy has planned it again, writing the brief
\* a second time
C37_Witness ==
    /\ config.agentKind = "BriefAgent"
    /\ history.policyCalls >= 2
    /\ Len(history.executions) >= 1
    /\ history.executions[1].toolId = GEN
    /\ ~history.executions[1].ok
    /\ state.creativeBrief # Undef
    /\ pc = "act"
    /\ agentStep[1].toolId = GEN

\* C38: in the streaming lyrics route a request is in the approval store
\* before the approval_required event with its id is sent: every announced id
\* has a promise of the store, and as long as that promise is pending (not
\* resolved, not timed out or expired) the id is reported pending and a
\* decision posted for it is resolved, never answered 'not found'.
C38_PromisesOf(id) ==
    {p \in 1..Len(approvalStore.promises) : approvalStore.promises[p].id = id}

C38_AnnouncedIsPending ==
    \A id \in Announced :
        /\ C38_PromisesOf(id) # {}
        /\ (\E p \in C38_PromisesOf(id) : approvalStore.promises[p].status = "pending")
           => /\ hasRequest(approvalStore, id)
              /\ \A decision \in Decisions, feedback \in FeedbackInputs :
                   resolveApproval(approvalStore, id, decision, feedback).returns

\* a decision was posted for the announced request the run is waiting on, and
\* was accepted
C38_Witness ==
    /\ pc = "approval"
    /\ Len(approval.events) >= 1
    /\ approval.events[Len(approval.events)].approvalId \in Announced
    /\ approvalStore.promises[approval.promise].status = "resolved"
    /\ response = "success"

\* C39: reflect's shouldContinue does not depend on the numeric quality: a
\* state and any state that differs from it only in the quality of its
\* evaluation get the same shouldContinue, from the reflect with the 8.5
\* threshold and from the earlier one with 7 (the reasoning may differ).
C39_Qualities == 0..MaxQuality

C39_WithQuality(q) == [state EXCEPT !.evaluation.quality = q]

C39_QualityDoesNotDecide ==
    state.evaluation # Undef =>
        \A q \in C39_Qualities :
            /\ reflect(C39_WithQuality(q), config.maxIterations).shouldContinue
                 = reflect(state, config.maxIterations).shouldContinue
            /\ reflectEarlier(C39_WithQuality(q), config.maxIterations).shouldContinue
                 = reflectEarlier(state, config.maxIterations).shouldContinue

\* reflect is about to be called on a state where the score changes what it
\* says (acceptable or max iterations) but not what it decides
C39_Witness ==
    /\ pc = "reflect"
    /\ state.songStructure # Undef
    /\ state.evaluation # Undef
    /\ state.evaluation.needsImprovement
    /\ \E q \in C39_Qualities :
         /\ reflect(C39_WithQuality(q), config.maxIterations).reasoning
              # reflect(state, config.maxIterations).reasoning
         /\ reflectEarlier(C39_WithQuality(q), config.maxIterations).reasoning
              # reflectEarlier(state, config.maxIterations).reasoning

====
